---- MODULE Spec2Model ----
(***************************************************************************)
(* Buffered cipher stream adapters of src/EncryptionStream.{h,cpp}:        *)
(* EncryptionStream, DecryptionStream, BlockEncryptionStream and           *)
(* BlockDecryptionStream.  Pointers into a buffer are modelled as offsets  *)
(* from the buffer's first byte; a buffer is a sequence of Capacity bytes  *)
(* (index i of the code is element i+1 of the sequence).                   *)
(***************************************************************************)
EXTENDS Integers, Sequences, FiniteSets, TLC

\* Window capacity TWN_ARRAY_SIZE(m_buffer), scaled down from 4096.
Capacity == 6
\* Longest plaintext the pipeline's writer pushes.
MaxLen == 6
\* Longest plaintext a free-running caller pushes.
MaxPush == 5
\* Longest byte sequence a free-running source holds.
MaxSrcLen == 7
\* Longest span the sink of an EncryptionStream offers.
MaxSpan == 3
\* Flush calls a free-running caller makes on one BlockEncryptionStream.
MaxFlushes == 2
\* Writes the wrapped sink rejects in one run.
MaxSinkFailures == 1
\* Block sizes (Init's keySize) of the pipeline, and of a free-running adapter
\* (a block as large as the window included).
BlockSizes == {2, 3}
FreeBlockSizes == BlockSizes \cup {Capacity}
\* Plaintext bytes the writer draws from (0 looks like padding filler, 2 like
\* a padding-length byte).
PlainBytes == {0, 2}
\* The cipher primitive: a key byte and the period of its block/position tweak.
Key == 7
Period == 4
\* Ciphertext bytes a free-running source draws from: under the tweaks of
\* successive blocks the first decrypts to 2, 1, 0, 255 and the second to
\* 9, 8, 7, 6.
SrcBytes == {Key + 2, Key + 9}
\* The two builds: a failed TWN_REQUIRE / TWN_BUG stops the program, or is
\* reported and execution goes on.
Builds == {"halt", "continue"}
\* Content of a buffer byte nobody has written yet.
Junk == 170

VARIABLES
  focus, m_blockSize, build, halted, errors, op, result, touched,
  be_buffer, be_encrypedBuffer, be_writePos, be_crypto,
  bd_buffer, bd_encrypedBuffer, bd_readPos, bd_readEnd, bd_writePos, bd_crypto,
  es_lastBuffer, es_crypto,
  ds_buffer, ds_readPos, ds_readEnd, ds_crypto,
  dest, destWrites, source, sinkFailures,
  plain, fed, wspan, rspan, delivered, phase, flushes

beVars == <<be_buffer, be_encrypedBuffer, be_writePos, be_crypto>>
bdVars == <<bd_buffer, bd_encrypedBuffer, bd_readPos, bd_readEnd, bd_writePos, bd_crypto>>
esVars == <<es_lastBuffer, es_crypto>>
dsVars == <<ds_buffer, ds_readPos, ds_readEnd, ds_crypto>>
runVars == <<halted, errors, op, result, touched>>
\* dest: the bytes the wrapped sink holds; destWrites: the lengths of the
\* non-empty spans it was handed; source: the wrapped source's unread bytes;
\* sinkFailures: the writes the wrapped sink has rejected.
ioVars == <<dest, destWrites, source, sinkFailures>>
configVars == <<focus, m_blockSize, build>>
harnessVars == <<plain, fed, wspan, rspan, delivered, phase, flushes>>
vars == <<configVars, runVars, beVars, bdVars, esVars, dsVars, ioVars, harnessVars>>

----------------------------------------------------------------------------
\* Helpers: byte ranges of a buffer.

Min(a, b) == IF a <= b THEN a ELSE b

\* buf[i] of the code; a byte outside the array reads as Junk.
Peek(buf, i) == IF i >= 0 /\ i < Len(buf) THEN buf[i + 1] ELSE Junk

\* The n bytes buf[lo .. lo+n-1].
Range(buf, lo, n) == [k \in 1..n |-> Peek(buf, lo + k - 1)]

\* buf after data has been copied to buf[off ..]; bytes that would land
\* outside the array are dropped.
Poke(buf, off, data) == [i \in 1..Len(buf) |-> IF i - 1 >= off /\ i - 1 < off + Len(data) THEN data[i - off] ELSE buf[i]]

\* An access to n bytes of the named buffer starting at offset lo.
Access(name, lo, n) == IF n > 0 THEN {<<name, lo, lo + n>>} ELSE {}

Zeros(n) == [k \in 1..n |-> 0]

FreshBuffer == [k \in 1..Capacity |-> Junk]

\* The record of a call: the operation, its byte count (the argument, or the
\* length of the span it returned), and for a Decrypt the ciphertext bytes it
\* pulled and the transforms it ran.
CallOf(name, n, pulled, transforms) == [name |-> name, n |-> n, pulled |-> pulled, transforms |-> transforms]

Call(name, n) == CallOf(name, n, 0, 0)

----------------------------------------------------------------------------
\* The cipher primitive (m_crypto), an external collaborator.  A block-mode
\* session counts the blocks it has transformed; block k is rotated by one
\* byte and shifted by the key and the block's tweak.  A streaming session
\* counts bytes; byte k is shifted by the key stream at position k.

Tweak(ctr, k) == (ctr + k) % Period

BlockEncrypt(data, b, ctr) == [i \in 1..Len(data) |-> (Peek(data, ((i - 1) \div b) * b + ((((i - 1) % b) + 1) % b)) + Key + Tweak(ctr, (i - 1) \div b)) % 256]

BlockDecrypt(data, b, ctr) == [i \in 1..Len(data) |-> (Peek(data, ((i - 1) \div b) * b + ((((i - 1) % b) + b - 1) % b)) + 256 - Key - Tweak(ctr, (i - 1) \div b)) % 256]

\* Byte counts a block-mode Cipher call may report for len input bytes: all of
\* them when len is block aligned; otherwise the call fails (0) or transforms
\* the whole blocks only.
BlockCipherWritten(len, b) == IF len % b = 0 THEN {len} ELSE {0, len - (len % b)}

StreamEncrypt(data, pos) == [i \in 1..Len(data) |-> (data[i] + Key + 3 * Tweak(pos, i - 1)) % 256]

StreamDecrypt(data, pos) == [i \in 1..Len(data) |-> (data[i] + 256 - Key - 3 * Tweak(pos, i - 1)) % 256]

----------------------------------------------------------------------------
\* BlockEncryptionStream

\* GetAvailableRead(): m_writePos - m_buffer.
BE_GetAvailableRead == be_writePos

\* NextWrite: the span handed to the caller starts at m_writePos and is
\* bufferRemaining bytes long.
BE_NextWriteSpan == Capacity - BE_GetAvailableRead

\* Mutants of bytesToWrite: everything accumulated, aligned or not; and one
\* block per call.
BE_BytesToWrite_Unaligned(totalBytes, b) == totalBytes

BE_BytesToWrite_OneBlock(totalBytes, b) == b

\* Mutant of bytesToWrite: the last whole block is held back, as the
\* decryptor does.
BE_BytesToWrite_LastBlockWithheld(totalBytes, b) == totalBytes - (totalBytes % b) - b

\* AdvanceWrite's bytesToWrite: the whole blocks among totalBytes.
BE_BytesToWrite(totalBytes, b) == totalBytes - (totalBytes % b)

\* Mutant of AdvanceWrite's body: the remaining bytes are not copied to the
\* start of the buffer.
BE_AdvanceWriteBody_NoCompaction(buf, enc, wp, ctr, b, bytes) ==
  LET totalBytes == bytes + wp
      bytesToWrite == totalBytes - (totalBytes % b)
      remainingBytes == totalBytes - bytesToWrite
      written == BlockEncrypt(Range(buf, 0, bytesToWrite), b, ctr)
  IN IF totalBytes >= b
     THEN [buffer |-> buf, encrypted |-> Poke(enc, 0, written), writePos |-> remainingBytes,
           crypto |-> (ctr + bytesToWrite \div b) % Period, copy |-> TRUE, out |-> written,
           touched |-> Access("m_buffer", 0, bytesToWrite) \cup Access("m_encrypedBuffer", 0, bytesToWrite)]
     ELSE [buffer |-> buf, encrypted |-> enc, writePos |-> wp + bytes,
           crypto |-> ctr, copy |-> FALSE, out |-> <<>>, touched |-> {}]

\* The body of AdvanceWrite on the accumulation buffer buf holding wp bytes:
\* the new buffers, write position and session, the bytes handed to
\* Stream::Copy (copy = TRUE when it is called) and the accesses made.
BE_AdvanceWriteBody(buf, enc, wp, ctr, b, bytes) ==
  LET totalBytes == bytes + wp
      bytesToWrite == BE_BytesToWrite(totalBytes, b)
      remainingBytes == totalBytes - bytesToWrite
      written == BlockEncrypt(Range(buf, 0, bytesToWrite), b, ctr)
  IN IF totalBytes >= b
     THEN [buffer |-> Poke(buf, 0, Range(buf, bytesToWrite, remainingBytes)),
           encrypted |-> Poke(enc, 0, written),
           writePos |-> remainingBytes,
           crypto |-> (ctr + bytesToWrite \div b) % Period,
           copy |-> TRUE,
           out |-> written,
           touched |-> Access("m_buffer", 0, bytesToWrite)
                       \cup Access("m_encrypedBuffer", 0, bytesToWrite)
                       \cup Access("m_buffer", bytesToWrite, remainingBytes)
                       \cup Access("m_buffer", 0, remainingBytes)]
     ELSE [buffer |-> buf, encrypted |-> enc, writePos |-> wp + bytes,
           crypto |-> ctr, copy |-> FALSE, out |-> <<>>, touched |-> {}]

\* Mutant of paddingLen: no padding behind block-aligned data.
PaddingLen_NoneWhenAligned(dataLen, b) == (b - (dataLen % b)) % b

\* Pad's paddingLen.
PaddingLen(dataLen, b) == b - (dataLen % b)

\* The bytes Pad writes: zeros, then the padding length as a uint8_t.
PaddingBytes(paddingLen) == Zeros(paddingLen - 1) \o <<paddingLen % 256>>

\* Pad(buffer, bufferLen, dataLen): the padded buffer and the returned count.
Pad(buffer, bufferLen, dataLen, b) ==
  LET paddingLen == PaddingLen(dataLen, b)
  IN IF dataLen + paddingLen < bufferLen
     THEN [fits |-> TRUE,
           buffer |-> Poke(buffer, dataLen, PaddingBytes(paddingLen)),
           ret |-> paddingLen,
           touched |-> Access("m_buffer", dataLen, paddingLen)]
     ELSE [fits |-> FALSE, buffer |-> buffer, ret |-> 0, touched |-> {}]

\* AdvanceWrite(bytes) after the caller has written data (bytes long) into the
\* span NextWrite returned; sinkOk is whether the wrapped sink accepts the
\* forwarded bytes.
BlockEncryptionStream_AdvanceWrite(bytes, data, sinkOk) ==
  LET r == BE_AdvanceWriteBody(Poke(be_buffer, be_writePos, data), be_encrypedBuffer,
                               be_writePos, be_crypto, m_blockSize, bytes)
  IN /\ be_buffer' = r.buffer
     /\ be_encrypedBuffer' = r.encrypted
     /\ be_writePos' = r.writePos
     /\ be_crypto' = r.crypto
     /\ dest' = IF r.copy /\ sinkOk THEN dest \o r.out ELSE dest
     /\ destWrites' = IF r.copy /\ sinkOk THEN Append(destWrites, Len(r.out)) ELSE destWrites
     /\ sinkFailures' = IF r.copy /\ ~sinkOk THEN sinkFailures + 1 ELSE sinkFailures
     /\ result' = IF r.copy /\ ~sinkOk THEN "false" ELSE "true"
     /\ op' = Call("BlockEncryptionStream::AdvanceWrite", bytes)
     /\ touched' = r.touched
     /\ UNCHANGED <<halted, errors, source, bdVars, esVars, dsVars>>

\* NextWrite(buffer): always succeeds; the caller is handed the span
\* [m_writePos, m_writePos + bufferRemaining) to fill.
BlockEncryptionStream_NextWrite ==
  /\ result' = "true"
  /\ op' = Call("BlockEncryptionStream::NextWrite", BE_NextWriteSpan)
  /\ touched' = Access("m_buffer", be_writePos, BE_NextWriteSpan)
  /\ UNCHANGED <<halted, errors, ioVars, beVars, bdVars, esVars, dsVars>>

\* Flush(): Pad, the block-alignment requirement, then AdvanceWrite(padBytes)
\* whose result is dropped.  A failed TWN_BUG / TWN_REQUIRE stops the program
\* in a halting build and is only reported otherwise.
BlockEncryptionStream_Flush(sinkOk) ==
  LET p == Pad(be_buffer, Capacity, BE_GetAvailableRead, m_blockSize)
      padBug == ~p.fits
      requireFails == (BE_GetAvailableRead + p.ret) % m_blockSize # 0
      r == BE_AdvanceWriteBody(p.buffer, be_encrypedBuffer, be_writePos, be_crypto,
                               m_blockSize, p.ret)
      raised == (IF padBug THEN {"Pad: insufficient buffer space"} ELSE {})
                \cup (IF requireFails /\ ~(padBug /\ build = "halt")
                      THEN {"BlockEncryptionStream::Flush: not block aligned"} ELSE {})
  IN /\ op' = Call("BlockEncryptionStream::Flush", p.ret)
     /\ errors' = errors \cup raised
     /\ IF raised # {} /\ build = "halt"
        THEN /\ halted' = TRUE
             /\ result' = "abort"
             /\ be_buffer' = p.buffer
             /\ touched' = p.touched
             /\ UNCHANGED <<be_encrypedBuffer, be_writePos, be_crypto, dest, destWrites, sinkFailures>>
        ELSE /\ halted' = halted
             /\ result' = "void"
             /\ be_buffer' = r.buffer
             /\ be_encrypedBuffer' = r.encrypted
             /\ be_writePos' = r.writePos
             /\ be_crypto' = r.crypto
             /\ dest' = IF r.copy /\ sinkOk THEN dest \o r.out ELSE dest
             /\ destWrites' = IF r.copy /\ sinkOk THEN Append(destWrites, Len(r.out)) ELSE destWrites
             /\ sinkFailures' = IF r.copy /\ ~sinkOk THEN sinkFailures + 1 ELSE sinkFailures
             /\ touched' = p.touched \cup r.touched
     /\ UNCHANGED <<source, bdVars, esVars, dsVars>>

----------------------------------------------------------------------------
\* BlockDecryptionStream

BD_GetAvailableRead == bd_readEnd - bd_readPos
BD_GetUsedWrite == bd_writePos
BD_GetAvailableWrite == Capacity - BD_GetUsedWrite

\* Mutant of bytesToRead: the last block is not withheld.
BD_BytesToRead_NothingWithheld(availableBytes, b) == availableBytes - (availableBytes % b)

\* Mutant of bytesToRead: two blocks are withheld.
BD_BytesToRead_TwoBlocksWithheld(availableBytes, b) == availableBytes - (availableBytes % b) - 2 * b

\* Decrypt's bytesToRead: the whole blocks among availableBytes but the last.
BD_BytesToRead(availableBytes, b) == availableBytes - (availableBytes % b) - b

\* Mutant of len: the source's span is copied whole.
BD_CopyLen_Unclamped(availableWrite, k) == k

\* Decrypt's len: as much of the source's span (k bytes) as the ciphertext
\* buffer still takes.
BD_CopyLen(availableWrite, k) == Min(availableWrite, k)

\* One pass of Decrypt's loop body, the source having returned a span of k
\* bytes.  s holds the adapter's fields, the source's unread bytes (src), the
\* loop's bytesRead and the accesses made so far.
BD_DecryptPass(s, b, k) ==
  LET len == BD_CopyLen(Capacity - s.writePos, k)
      enc1 == Poke(s.encrypted, s.writePos, SubSeq(s.src, 1, len))
      availableBytes == s.writePos + len
      bytesToRead == BD_BytesToRead(availableBytes, b)
      remainingBytes == availableBytes - bytesToRead
      copied == [s EXCEPT !.encrypted = enc1,
                          !.writePos = availableBytes,
                          !.src = SubSeq(s.src, len + 1, Len(s.src)),
                          !.bytesRead = s.bytesRead + len,
                          !.touched = s.touched \cup Access("m_encrypedBuffer", s.writePos, len)]
  IN IF bytesToRead > 0
     THEN [copied EXCEPT
             !.buffer = Poke(s.buffer, 0, BlockDecrypt(Range(enc1, 0, bytesToRead), b, s.crypto)),
             !.readEnd = bytesToRead,
             !.encrypted = Poke(enc1, 0, Range(enc1, bytesToRead, remainingBytes)),
             !.writePos = remainingBytes,
             !.crypto = (s.crypto + bytesToRead \div b) % Period,
             !.transforms = s.transforms + 1,
             !.touched = copied.touched
                         \cup Access("m_encrypedBuffer", 0, bytesToRead)
                         \cup Access("m_buffer", 0, bytesToRead)
                         \cup Access("m_encrypedBuffer", bytesToRead, remainingBytes)
                         \cup Access("m_encrypedBuffer", 0, remainingBytes)]
     ELSE copied

\* Decrypt's while loop: every state it can end in, over the span lengths the
\* source may return.  m_source->NextRead succeeds while the source has bytes.
RECURSIVE BD_DecryptLoop(_, _)
BD_DecryptLoop(s, b) ==
  IF Capacity - s.writePos > 0 /\ s.readEnd < b /\ Len(s.src) > 0
  THEN UNION {BD_DecryptLoop(BD_DecryptPass(s, b, k), b) : k \in 1..Len(s.src)}
  ELSE {s}

\* Decrypt(): the cursors are reset, the loop runs; the call returns
\* bytesRead > 0.
BD_Decrypt ==
  BD_DecryptLoop([buffer |-> bd_buffer, encrypted |-> bd_encrypedBuffer,
                  readEnd |-> 0, writePos |-> bd_writePos, crypto |-> bd_crypto,
                  src |-> source, bytesRead |-> 0, transforms |-> 0, touched |-> {}],
                 m_blockSize)

\* NextRead(buffer): Decrypt when nothing is readable; on success the caller
\* is handed the span [m_readPos, m_readEnd).
BlockDecryptionStream_NextRead ==
  IF BD_GetAvailableRead = 0
  THEN \E s \in BD_Decrypt :
         /\ bd_buffer' = s.buffer
         /\ bd_encrypedBuffer' = s.encrypted
         /\ bd_readPos' = 0
         /\ bd_readEnd' = s.readEnd
         /\ bd_writePos' = s.writePos
         /\ bd_crypto' = s.crypto
         /\ source' = s.src
         /\ result' = IF s.bytesRead > 0 THEN "true" ELSE "false"
         /\ op' = CallOf("BlockDecryptionStream::NextRead", s.readEnd, s.bytesRead, s.transforms)
         /\ touched' = s.touched \cup (IF s.bytesRead > 0 THEN Access("m_buffer", 0, s.readEnd) ELSE {})
         /\ UNCHANGED <<halted, errors, dest, destWrites, sinkFailures, beVars, esVars, dsVars>>
  ELSE /\ result' = "true"
       /\ op' = Call("BlockDecryptionStream::NextRead", BD_GetAvailableRead)
       /\ touched' = Access("m_buffer", bd_readPos, BD_GetAvailableRead)
       /\ UNCHANGED <<halted, errors, ioVars, beVars, bdVars, esVars, dsVars>>

\* Mutant of AdvanceRead's test: off by one.
BD_MayAdvance_OffByOne(bytes, available) == bytes <= available + 1

\* Mutant of the padding test: any padding-length byte is accepted.
BD_PaddingAccepted_Always(numPaddedBytes, b) == TRUE

\* AdvanceRead's test, also the condition of its TWN_REQUIRE.
BD_MayAdvance(bytes, available) == bytes <= available

\* Flush's test of the padding-length byte.
BD_PaddingAccepted(numPaddedBytes, b) == numPaddedBytes <= b

\* AdvanceRead(bytes).
BlockDecryptionStream_AdvanceRead(bytes) ==
  /\ op' = Call("BlockDecryptionStream::AdvanceRead", bytes)
  /\ touched' = {}
  /\ IF BD_MayAdvance(bytes, BD_GetAvailableRead)
     THEN /\ bd_readPos' = bd_readPos + bytes
          /\ result' = "true"
          /\ UNCHANGED <<halted, errors>>
     ELSE /\ errors' = errors \cup {"BlockDecryptionStream::AdvanceRead: bytes > available"}
          /\ halted' = (build = "halt")
          /\ result' = IF build = "halt" THEN "abort" ELSE "false"
          /\ UNCHANGED bd_readPos
  /\ UNCHANGED <<bd_buffer, bd_encrypedBuffer, bd_readEnd, bd_writePos, bd_crypto,
                 ioVars, beVars, esVars, dsVars>>

\* Flush(): the withheld bytes are transformed to m_readEnd, the padding the
\* last byte counts is cut off, the ciphertext buffer is emptied.  written is
\* the byte count the Cipher call reports.
BlockDecryptionStream_Flush(written) ==
  LET bytesToRead == BD_GetUsedWrite
      notAligned == bytesToRead % m_blockSize # 0
      \* line 269 compares with size - (m_buffer - m_readEnd) = size + readEnd
      noRoom == ~(bytesToRead <= Capacity - (0 - bd_readEnd))
      plainText == BlockDecrypt(Range(bd_encrypedBuffer, 0, written), m_blockSize, bd_crypto)
      buffer1 == Poke(bd_buffer, bd_readEnd, plainText)
      readEnd1 == bd_readEnd + written
      numPaddedBytes == Peek(buffer1, readEnd1 - 1)
      badPadding == written > 0 /\ ~BD_PaddingAccepted(numPaddedBytes, m_blockSize)
      required == (IF notAligned THEN {"BlockDecryptionStream::Flush: not block aligned"} ELSE {})
                  \cup (IF noRoom THEN {"BlockDecryptionStream::Flush: no room"} ELSE {})
  IN /\ written \in BlockCipherWritten(bytesToRead, m_blockSize)
     /\ op' = Call("BlockDecryptionStream::Flush", bytesToRead)
     /\ IF required # {} /\ build = "halt"
        THEN /\ errors' = errors \cup required
             /\ halted' = TRUE
             /\ result' = "abort"
             /\ touched' = {}
             /\ UNCHANGED bdVars
        ELSE /\ errors' = errors \cup required
                            \cup (IF badPadding THEN {"BlockDecryptionStream::Flush: invalid padding"} ELSE {})
             /\ halted' = (badPadding /\ build = "halt")
             /\ result' = IF badPadding /\ build = "halt" THEN "abort" ELSE "void"
             /\ touched' = Access("m_encrypedBuffer", 0, bytesToRead)
                           \cup Access("m_buffer", bd_readEnd, written)
             /\ bd_buffer' = buffer1
             /\ bd_crypto' = (bd_crypto + written \div m_blockSize) % Period
             /\ bd_readEnd' = IF written > 0 /\ ~badPadding THEN readEnd1 - numPaddedBytes ELSE readEnd1
             /\ bd_writePos' = IF badPadding /\ build = "halt" THEN bd_writePos ELSE 0
             /\ UNCHANGED <<bd_encrypedBuffer, bd_readPos>>
     /\ UNCHANGED <<ioVars, beVars, esVars, dsVars>>

----------------------------------------------------------------------------
\* EncryptionStream (streaming cipher, no buffer of its own)

\* NextWrite(buffer): the wrapped sink's own span is remembered in
\* m_lastBuffer and handed on; k is the length of the span the sink offers.
EncryptionStream_NextWrite(k, sinkOk) ==
  /\ es_lastBuffer' = IF sinkOk THEN k ELSE es_lastBuffer
  /\ result' = IF sinkOk THEN "true" ELSE "false"
  /\ op' = Call("EncryptionStream::NextWrite", IF sinkOk THEN k ELSE 0)
  /\ touched' = {}
  /\ UNCHANGED <<halted, errors, es_crypto, ioVars, beVars, bdVars, dsVars>>

\* Mutant of the ciphered count: the last byte written is left out.
ES_CipherLen_Short(bytes) == IF bytes > 0 THEN bytes - 1 ELSE 0

\* The byte count AdvanceWrite passes to Cipher.
ES_CipherLen(bytes) == bytes

\* AdvanceWrite(bytes): the bytes the caller wrote to the span (data) are
\* ciphered in place and the sink is advanced by the count Cipher reports.
EncryptionStream_AdvanceWrite(bytes, data, sinkOk) ==
  LET written == StreamEncrypt(SubSeq(data, 1, ES_CipherLen(bytes)), es_crypto)
  IN /\ es_crypto' = (es_crypto + Len(written)) % Period
     /\ dest' = IF sinkOk THEN dest \o written ELSE dest
     /\ destWrites' = IF sinkOk /\ Len(written) > 0 THEN Append(destWrites, Len(written)) ELSE destWrites
     /\ sinkFailures' = IF sinkOk THEN sinkFailures ELSE sinkFailures + 1
     /\ result' = IF sinkOk THEN "true" ELSE "false"
     /\ op' = Call("EncryptionStream::AdvanceWrite", bytes)
     /\ touched' = {}
     /\ UNCHANGED <<halted, errors, es_lastBuffer, source, beVars, bdVars, dsVars>>

----------------------------------------------------------------------------
\* DecryptionStream (streaming cipher, one window buffer)

DS_GetAvailableRead == ds_readEnd - ds_readPos

\* Decrypt(): the cursors are reset; one span of the source (k bytes long) is
\* copied into the window, as much of it as fits, and ciphered in place.
DS_Decrypt(k) ==
  LET len == Min(Capacity, k)
  IN IF Len(source) > 0
     THEN [ok |-> TRUE,
           buffer |-> Poke(ds_buffer, 0, StreamDecrypt(SubSeq(source, 1, len), ds_crypto)),
           readEnd |-> len,
           crypto |-> (ds_crypto + len) % Period,
           src |-> SubSeq(source, len + 1, Len(source)),
           touched |-> Access("m_buffer", 0, len)]
     ELSE [ok |-> FALSE, buffer |-> ds_buffer, readEnd |-> 0, crypto |-> ds_crypto,
           src |-> source, touched |-> {}]

\* NextRead(buffer).
DecryptionStream_NextRead ==
  IF DS_GetAvailableRead = 0
  THEN \E k \in 1..(IF Len(source) = 0 THEN 1 ELSE Len(source)) :
         LET d == DS_Decrypt(k)
         IN /\ ds_buffer' = d.buffer
            /\ ds_readPos' = 0
            /\ ds_readEnd' = d.readEnd
            /\ ds_crypto' = d.crypto
            /\ source' = d.src
            /\ result' = IF d.ok THEN "true" ELSE "false"
            /\ op' = CallOf("DecryptionStream::NextRead", d.readEnd, d.readEnd, 0)
            /\ touched' = d.touched
            /\ UNCHANGED <<halted, errors, dest, destWrites, sinkFailures, beVars, bdVars, esVars>>
  ELSE /\ result' = "true"
       /\ op' = Call("DecryptionStream::NextRead", DS_GetAvailableRead)
       /\ touched' = Access("m_buffer", ds_readPos, DS_GetAvailableRead)
       /\ UNCHANGED <<halted, errors, ioVars, beVars, bdVars, esVars, dsVars>>

\* AdvanceRead's test, also the condition of its TWN_REQUIRE.
DS_MayAdvance(bytes, available) == bytes <= available

\* AdvanceRead(bytes).
DecryptionStream_AdvanceRead(bytes) ==
  /\ op' = Call("DecryptionStream::AdvanceRead", bytes)
  /\ touched' = {}
  /\ IF DS_MayAdvance(bytes, DS_GetAvailableRead)
     THEN /\ ds_readPos' = ds_readPos + bytes
          /\ result' = "true"
          /\ UNCHANGED <<halted, errors>>
     ELSE /\ errors' = errors \cup {"DecryptionStream::AdvanceRead: bytes > available"}
          /\ halted' = (build = "halt")
          /\ result' = IF build = "halt" THEN "abort" ELSE "false"
          /\ UNCHANGED ds_readPos
  /\ UNCHANGED <<ds_buffer, ds_readEnd, ds_crypto, ioVars, beVars, bdVars, esVars>>

----------------------------------------------------------------------------
\* The adapters after construction and Init(algorithm, key, keySize, iv, ivSize).

Plaintexts == UNION {[1..n -> PlainBytes] : n \in 0..MaxLen}

\* What a free-running caller pushes: up to MaxPush bytes in two runs.
FreePlaintexts == {[i \in 1..n |-> IF i <= j THEN a ELSE b] : n \in 0..MaxPush, j \in 0..MaxPush, a \in PlainBytes, b \in PlainBytes}

\* What the source of a BlockDecryptionStream holds: any bytes, here up to
\* MaxSrcLen bytes in two runs (j times one byte value, then another).
Sources == {[i \in 1..n |-> IF i <= j THEN a ELSE b] : n \in 0..MaxSrcLen, j \in 0..MaxSrcLen, a \in SrcBytes, b \in SrcBytes}

\* What the source of a DecryptionStream holds: the streaming cipher works
\* byte by byte, one byte value is enough.
StreamSources == {[i \in 1..n |-> Key + 2] : n \in 0..MaxSrcLen}

InitAdapters ==
  /\ build \in Builds
  /\ halted = FALSE /\ errors = {} /\ op = Call("Init", 0) /\ result = "true" /\ touched = {}
  /\ be_buffer = FreshBuffer /\ be_encrypedBuffer = FreshBuffer /\ be_writePos = 0 /\ be_crypto = 0
  /\ bd_buffer = FreshBuffer /\ bd_encrypedBuffer = FreshBuffer
  /\ bd_readPos = 0 /\ bd_readEnd = 0 /\ bd_writePos = 0 /\ bd_crypto = 0
  /\ es_lastBuffer = 0 /\ es_crypto = 0
  /\ ds_buffer = FreshBuffer /\ ds_readPos = 0 /\ ds_readEnd = 0 /\ ds_crypto = 0
  /\ dest = <<>> /\ destWrites = <<>> /\ sinkFailures = 0
  /\ fed = 0 /\ wspan = -1 /\ rspan = -1 /\ delivered = <<>> /\ flushes = 0

----------------------------------------------------------------------------
\* The pipeline: a writer pushes plain through a BlockEncryptionStream and
\* flushes once; the bytes the sink received become the source of a
\* BlockDecryptionStream, which a reader drains (NextRead/AdvanceRead until
\* NextRead fails, Flush, NextRead/AdvanceRead until NextRead fails).

Init ==
  /\ InitAdapters
  /\ focus = "pipeline"
  /\ m_blockSize \in BlockSizes
  /\ plain \in Plaintexts
  /\ source = <<>>
  /\ phase = "write"

WriterNextWrite ==
  /\ ~halted /\ phase = "write" /\ wspan = -1
  /\ BlockEncryptionStream_NextWrite
  /\ wspan' = BE_NextWriteSpan
  /\ UNCHANGED <<configVars, plain, fed, rspan, delivered, phase, flushes>>

WriterAdvanceWrite ==
  /\ ~halted /\ phase = "write" /\ wspan >= 0
  /\ \E n \in 0..Min(wspan, Len(plain) - fed) :
       /\ BlockEncryptionStream_AdvanceWrite(n, SubSeq(plain, fed + 1, fed + n), TRUE)
       /\ fed' = fed + n
  /\ wspan' = -1
  /\ UNCHANGED <<configVars, plain, rspan, delivered, phase, flushes>>

\* The one Flush, once everything is pushed.
WriterFlush ==
  /\ ~halted /\ phase = "write" /\ fed = Len(plain)
  /\ BlockEncryptionStream_Flush(TRUE)
  /\ flushes' = flushes + 1
  /\ wspan' = -1
  /\ phase' = "handover"
  /\ UNCHANGED <<configVars, plain, fed, rspan, delivered>>

\* The ciphertext the sink holds becomes the decryptor's source.
Handover ==
  /\ ~halted /\ phase = "handover"
  /\ source' = dest
  /\ phase' = "read"
  /\ op' = Call("handover", Len(dest))
  /\ UNCHANGED <<configVars, halted, errors, result, touched, dest, destWrites, sinkFailures,
                 beVars, bdVars, esVars, dsVars,
                 plain, fed, wspan, rspan, delivered, flushes>>

ReaderNextRead ==
  /\ ~halted /\ phase \in {"read", "flushed"} /\ rspan = -1
  /\ BlockDecryptionStream_NextRead
  /\ rspan' = IF result' = "true" THEN op'.n ELSE -1
  /\ phase' = IF result' = "true" THEN phase ELSE IF phase = "read" THEN "flush" ELSE "done"
  /\ UNCHANGED <<configVars, plain, fed, wspan, delivered, flushes>>

ReaderAdvanceRead ==
  /\ ~halted /\ phase \in {"read", "flushed"} /\ rspan >= 0
  /\ \E n \in 0..rspan :
       /\ BlockDecryptionStream_AdvanceRead(n)
       /\ delivered' = delivered \o Range(bd_buffer, bd_readPos, n)
  /\ rspan' = -1
  /\ UNCHANGED <<configVars, plain, fed, wspan, phase, flushes>>

ReaderFlush ==
  /\ ~halted /\ phase = "flush"
  /\ \E written \in BlockCipherWritten(BD_GetUsedWrite, m_blockSize) :
       BlockDecryptionStream_Flush(written)
  /\ phase' = "flushed"
  /\ UNCHANGED <<configVars, plain, fed, wspan, rspan, delivered, flushes>>

Next ==
  \/ WriterNextWrite
  \/ WriterAdvanceWrite
  \/ WriterFlush
  \/ Handover
  \/ ReaderNextRead
  \/ ReaderAdvanceRead
  \/ ReaderFlush

Spec == Init /\ [][Next]_vars

----------------------------------------------------------------------------
\* One adapter driven by a caller that makes its calls in any order: a
\* BlockEncryptionStream or an EncryptionStream fed from plain, a
\* BlockDecryptionStream or a DecryptionStream over a source of arbitrary
\* bytes.  Spans are respected (AdvanceWrite takes at most the span NextWrite
\* returned); AdvanceRead may ask for one byte more than is available.

InitFree ==
  /\ InitAdapters
  /\ focus \in {"BlockEncryptionStream", "BlockDecryptionStream",
                "EncryptionStream", "DecryptionStream"}
  /\ m_blockSize \in IF focus \in {"BlockEncryptionStream", "BlockDecryptionStream"}
                      THEN FreeBlockSizes ELSE {1}
  /\ plain \in IF focus \in {"BlockEncryptionStream", "EncryptionStream"} THEN FreePlaintexts ELSE {<<>>}
  /\ source \in IF focus = "BlockDecryptionStream" THEN Sources
                ELSE IF focus = "DecryptionStream" THEN StreamSources ELSE {<<>>}
  /\ phase = "free"

FreeBlockEncNextWrite ==
  /\ ~halted /\ focus = "BlockEncryptionStream"
  /\ BlockEncryptionStream_NextWrite
  /\ wspan' = BE_NextWriteSpan
  /\ UNCHANGED <<configVars, plain, fed, rspan, delivered, phase, flushes>>

FreeBlockEncAdvanceWrite ==
  /\ ~halted /\ focus = "BlockEncryptionStream" /\ wspan >= 0
  /\ \E n \in 0..Min(wspan, Len(plain) - fed) :
       /\ BlockEncryptionStream_AdvanceWrite(n, SubSeq(plain, fed + 1, fed + n), TRUE)
       /\ fed' = fed + n
  /\ wspan' = -1
  /\ UNCHANGED <<configVars, plain, rspan, delivered, phase, flushes>>

FreeBlockEncFlush ==
  /\ ~halted /\ focus = "BlockEncryptionStream" /\ flushes < MaxFlushes
  /\ BlockEncryptionStream_Flush(TRUE)
  /\ flushes' = flushes + 1
  /\ wspan' = -1
  /\ UNCHANGED <<configVars, plain, fed, rspan, delivered, phase>>

FreeBlockDecNextRead ==
  /\ ~halted /\ focus = "BlockDecryptionStream"
  /\ BlockDecryptionStream_NextRead
  /\ rspan' = IF result' = "true" THEN op'.n ELSE -1
  /\ UNCHANGED <<configVars, plain, fed, wspan, delivered, phase, flushes>>

FreeBlockDecAdvanceRead ==
  /\ ~halted /\ focus = "BlockDecryptionStream"
  /\ \E n \in 0..(BD_GetAvailableRead + 1) : BlockDecryptionStream_AdvanceRead(n)
  /\ rspan' = -1
  /\ UNCHANGED <<configVars, plain, fed, wspan, delivered, phase, flushes>>

FreeBlockDecFlush ==
  /\ ~halted /\ focus = "BlockDecryptionStream"
  /\ \E written \in BlockCipherWritten(BD_GetUsedWrite, m_blockSize) :
       BlockDecryptionStream_Flush(written)
  /\ rspan' = -1
  /\ UNCHANGED <<configVars, plain, fed, wspan, delivered, phase, flushes>>

FreeStreamEncNextWrite ==
  /\ ~halted /\ focus = "EncryptionStream"
  /\ \E k \in 1..MaxSpan :
       /\ EncryptionStream_NextWrite(k, TRUE)
       /\ wspan' = k
  /\ UNCHANGED <<configVars, plain, fed, rspan, delivered, phase, flushes>>

FreeStreamEncAdvanceWrite ==
  /\ ~halted /\ focus = "EncryptionStream" /\ wspan >= 0
  /\ \E n \in 0..Min(wspan, Len(plain) - fed) :
       /\ EncryptionStream_AdvanceWrite(n, SubSeq(plain, fed + 1, fed + n), TRUE)
       /\ fed' = fed + n
  /\ wspan' = -1
  /\ UNCHANGED <<configVars, plain, rspan, delivered, phase, flushes>>

FreeStreamDecNextRead ==
  /\ ~halted /\ focus = "DecryptionStream"
  /\ DecryptionStream_NextRead
  /\ rspan' = IF result' = "true" THEN op'.n ELSE -1
  /\ UNCHANGED <<configVars, plain, fed, wspan, delivered, phase, flushes>>

FreeStreamDecAdvanceRead ==
  /\ ~halted /\ focus = "DecryptionStream"
  /\ \E n \in 0..(DS_GetAvailableRead + 1) : DecryptionStream_AdvanceRead(n)
  /\ rspan' = -1
  /\ UNCHANGED <<configVars, plain, fed, wspan, delivered, phase, flushes>>

NextFree ==
  \/ FreeBlockEncNextWrite
  \/ FreeBlockEncAdvanceWrite
  \/ FreeBlockEncFlush
  \/ FreeBlockDecNextRead
  \/ FreeBlockDecAdvanceRead
  \/ FreeBlockDecFlush
  \/ FreeStreamEncNextWrite
  \/ FreeStreamEncAdvanceWrite
  \/ FreeStreamDecNextRead
  \/ FreeStreamDecAdvanceRead

SpecFree == InitFree /\ [][NextFree]_vars

----------------------------------------------------------------------------
\* An encryptor over a sink that may reject a write: a BlockEncryptionStream
\* or an EncryptionStream fed from plain, its calls made in any order.  The
\* sink accepts or rejects each write it is handed (MaxSinkFailures
\* rejections at most in one run).

SinkOutcomes == {ok \in BOOLEAN : ok \/ sinkFailures < MaxSinkFailures}

InitSink ==
  /\ InitAdapters
  /\ focus \in {"BlockEncryptionStream", "EncryptionStream"}
  /\ m_blockSize \in IF focus = "BlockEncryptionStream" THEN FreeBlockSizes ELSE {1}
  /\ plain \in FreePlaintexts
  /\ source = <<>>
  /\ phase = "sink"

SinkBlockEncNextWrite ==
  /\ ~halted /\ focus = "BlockEncryptionStream"
  /\ BlockEncryptionStream_NextWrite
  /\ wspan' = BE_NextWriteSpan
  /\ UNCHANGED <<configVars, plain, fed, rspan, delivered, phase, flushes>>

SinkBlockEncAdvanceWrite ==
  /\ ~halted /\ focus = "BlockEncryptionStream" /\ wspan >= 0
  /\ \E n \in 0..Min(wspan, Len(plain) - fed), sinkOk \in SinkOutcomes :
       /\ BlockEncryptionStream_AdvanceWrite(n, SubSeq(plain, fed + 1, fed + n), sinkOk)
       /\ fed' = fed + n
  /\ wspan' = -1
  /\ UNCHANGED <<configVars, plain, rspan, delivered, phase, flushes>>

SinkBlockEncFlush ==
  /\ ~halted /\ focus = "BlockEncryptionStream" /\ flushes < MaxFlushes
  /\ \E sinkOk \in SinkOutcomes : BlockEncryptionStream_Flush(sinkOk)
  /\ flushes' = flushes + 1
  /\ wspan' = -1
  /\ UNCHANGED <<configVars, plain, fed, rspan, delivered, phase>>

SinkStreamEncNextWrite ==
  /\ ~halted /\ focus = "EncryptionStream"
  /\ \E k \in 1..MaxSpan, sinkOk \in BOOLEAN :
       /\ EncryptionStream_NextWrite(k, sinkOk)
       /\ wspan' = IF sinkOk THEN k ELSE -1
  /\ UNCHANGED <<configVars, plain, fed, rspan, delivered, phase, flushes>>

SinkStreamEncAdvanceWrite ==
  /\ ~halted /\ focus = "EncryptionStream" /\ wspan >= 0
  /\ \E n \in 0..Min(wspan, Len(plain) - fed), sinkOk \in SinkOutcomes :
       /\ EncryptionStream_AdvanceWrite(n, SubSeq(plain, fed + 1, fed + n), sinkOk)
       /\ fed' = fed + n
  /\ wspan' = -1
  /\ UNCHANGED <<configVars, plain, rspan, delivered, phase, flushes>>

NextSink ==
  \/ SinkBlockEncNextWrite
  \/ SinkBlockEncAdvanceWrite
  \/ SinkBlockEncFlush
  \/ SinkStreamEncNextWrite
  \/ SinkStreamEncAdvanceWrite

SpecSink == InitSink /\ [][NextSink]_vars

----------------------------------------------------------------------------
\* Claims checked under Spec (the pipeline).

\* C1: block round trip.  The pipeline raises no assertion, and once the
\* reader has drained the decryptor (NextRead failed, Flush, NextRead failed
\* again) the bytes delivered to it are exactly the plaintext the writer
\* pushed, for every chunking of the writes, of the source and of the reads.
C1_RoundTrip ==
  /\ errors = {}
  /\ phase = "done" => delivered = plain

\* C1 witness: a finished round trip of a plaintext longer than a block whose
\* length is not block aligned.
C1_Witness ==
  /\ phase = "done"
  /\ Len(plain) > m_blockSize
  /\ Len(plain) % m_blockSize # 0
  /\ delivered = plain

\* C2: padding rule.  A Flush called with d accumulated bytes pads with
\* exactly B - (d mod B) bytes (between 1 and B, a whole block when d is
\* block aligned), written behind the data as zeros followed by one byte
\* holding that count, and forwards the d bytes and the padding.
C2_PaddingRule ==
  [][op'.name = "BlockEncryptionStream::Flush" =>
       LET d == be_writePos
           padLen == op'.n
       IN /\ padLen = m_blockSize - (d % m_blockSize)
          /\ padLen >= 1 /\ padLen <= m_blockSize
          /\ (d % m_blockSize = 0 => padLen = m_blockSize)
          /\ Range(be_buffer', 0, d) = Range(be_buffer, 0, d)
          /\ Range(be_buffer', d, padLen) = Zeros(padLen - 1) \o <<padLen>>
          /\ Len(dest') = Len(dest) + d + padLen]_vars

\* C2 witness: a Flush of an encryptor that held no accumulated byte of a
\* non-empty plaintext has padded with a whole block.
C2_Witness ==
  /\ op.name = "BlockEncryptionStream::Flush"
  /\ Len(plain) > 0
  /\ op.n = m_blockSize
  /\ Range(be_buffer, 0, m_blockSize) = Zeros(m_blockSize - 1) \o <<m_blockSize>>

\* C3: alignment.  Every span the encryptor forwarded to the sink, the one
\* Flush triggers included, is a positive multiple of the block size long.
C3_Alignment ==
  \A i \in 1..Len(destWrites) : destWrites[i] > 0 /\ destWrites[i] % m_blockSize = 0

\* C3 witness: after Flush the sink has taken several spans, one of them
\* longer than a block, while the writer pushed an unaligned plaintext.
C3_Witness ==
  /\ phase = "handover"
  /\ Len(destWrites) >= 2
  /\ \E i \in 1..Len(destWrites) : destWrites[i] > m_blockSize
  /\ Len(plain) % m_blockSize # 0

\* C4: ciphertext length.  While the writer pushes, the sink holds
\* B*floor(fed/B) bytes and the encryptor retains fed mod B bytes; after the
\* Flush the sink holds B*(floor(L/B)+1) bytes.
C4_CiphertextLength ==
  /\ phase = "write" =>
       /\ Len(dest) = m_blockSize * (fed \div m_blockSize)
       /\ be_writePos = fed % m_blockSize
  /\ flushes = 1 => Len(dest) = m_blockSize * ((Len(plain) \div m_blockSize) + 1)

\* C4 witness: a block and a part pushed in one AdvanceWrite: one block
\* forwarded, the rest retained.
C4_Witness ==
  /\ phase = "write"
  /\ op.name = "BlockEncryptionStream::AdvanceWrite"
  /\ op.n > m_blockSize /\ op.n < 2 * m_blockSize
  /\ fed = op.n
  /\ Len(dest) = m_blockSize
  /\ be_writePos = op.n - m_blockSize

----------------------------------------------------------------------------
\* Claims checked under SpecFree (one adapter, calls in any order).

\* A Flush of the BlockDecryptionStream has just found the padding-length
\* byte of the block it decrypted to be larger than the block size.
BadPaddingFound ==
  /\ op'.name = "BlockDecryptionStream::Flush"
  /\ "BlockDecryptionStream::Flush: invalid padding" \in errors'
  /\ "BlockDecryptionStream::Flush: invalid padding" \notin errors

\* C5: corruption detection.  When Flush finds the padding-length byte of the
\* final block larger than B it fails fatally and returns no data: the
\* program stops, or at least the readable region readEnd - readPos is not
\* extended by the bytes of that block.
C5_CorruptionDetection ==
  [][BadPaddingFound =>
       \/ halted'
       \/ bd_readEnd' - bd_readPos' = bd_readEnd - bd_readPos]_vars

\* C6: AdvanceRead bounds contract of DecryptionStream and
\* BlockDecryptionStream.  AdvanceRead(n) with n > available fails (returns
\* false, or stops a halting build) and changes no cursor and no buffer;
\* with 0 <= n <= available it returns true and moves readPos by exactly n,
\* changing nothing else.
C6_AdvanceReadContract ==
  [][/\ op'.name = "DecryptionStream::AdvanceRead" =>
          IF op'.n > ds_readEnd - ds_readPos
          THEN result' \in {"false", "abort"} /\ UNCHANGED <<dsVars, ioVars>>
          ELSE /\ result' = "true"
               /\ ds_readPos' = ds_readPos + op'.n
               /\ UNCHANGED <<ds_buffer, ds_readEnd, ds_crypto, ioVars, halted, errors>>
     /\ op'.name = "BlockDecryptionStream::AdvanceRead" =>
          IF op'.n > bd_readEnd - bd_readPos
          THEN result' \in {"false", "abort"} /\ UNCHANGED <<bdVars, ioVars>>
          ELSE /\ result' = "true"
               /\ bd_readPos' = bd_readPos + op'.n
               /\ UNCHANGED <<bd_buffer, bd_encrypedBuffer, bd_readEnd, bd_writePos,
                              bd_crypto, ioVars, halted, errors>>]_vars

\* C6 witness: a BlockDecryptionStream holding readable plaintext has refused
\* an AdvanceRead of one byte more than is available.
C6_Witness ==
  /\ op.name = "BlockDecryptionStream::AdvanceRead"
  /\ result = "false"
  /\ bd_readEnd - bd_readPos > 0
  /\ op.n = bd_readEnd - bd_readPos + 1

\* C7: stream-cipher chunking independence.  Whatever the spans the sink
\* offered and however the caller split the plaintext over AdvanceWrite
\* calls, the sink holds the ciphertext one call on the whole of the pushed
\* plaintext produces, and an AdvanceWrite(n) has forwarded exactly n bytes.
C7_StreamChunking ==
  focus = "EncryptionStream" =>
    /\ dest = StreamEncrypt(SubSeq(plain, 1, fed), 0)
    /\ (op.name = "EncryptionStream::AdvanceWrite" /\ op.n > 0) =>
         /\ destWrites # <<>>
         /\ destWrites[Len(destWrites)] = op.n

\* C7 witness: a plaintext longer than the cipher's period pushed in at least
\* three AdvanceWrite calls of different lengths.
C7_Witness ==
  /\ focus = "EncryptionStream"
  /\ fed = Len(plain) /\ fed > Period
  /\ Len(destWrites) >= 3
  /\ \E i, j \in 1..Len(destWrites) : destWrites[i] # destWrites[j]

\* C8: cursor invariant.  0 <= readPos <= readEnd <= capacity in the
\* DecryptionStream and in the BlockDecryptionStream's plaintext window,
\* 0 <= writePos <= capacity in the BlockEncryptionStream's accumulation
\* buffer and the BlockDecryptionStream's ciphertext buffer.
C8_CursorInvariant ==
  /\ 0 <= ds_readPos /\ ds_readPos <= ds_readEnd /\ ds_readEnd <= Capacity
  /\ 0 <= bd_readPos /\ bd_readPos <= bd_readEnd /\ bd_readEnd <= Capacity
  /\ 0 <= be_writePos /\ be_writePos <= Capacity
  /\ 0 <= bd_writePos /\ bd_writePos <= Capacity

\* C8 witness: a Flush that decrypted withheld bytes behind plaintext the
\* reader had partly consumed, and cut padding off.
C8_Witness ==
  /\ op.name = "BlockDecryptionStream::Flush"
  /\ op.n > 0
  /\ bd_readPos > 0
  /\ bd_readEnd < Capacity
  /\ "BlockDecryptionStream::Flush: invalid padding" \notin errors
  /\ \E p \in 1..m_blockSize : Peek(bd_buffer, bd_readEnd + p - 1) = p

\* C9: window bound.  Every range of a buffer an adapter reads, writes or
\* hands out as a span lies within [0, Capacity).
C9_WindowBound ==
  \A t \in touched : 0 <= t[2] /\ t[2] < t[3] /\ t[3] <= Capacity

\* C9 witness: a Decrypt of the BlockDecryptionStream that filled the
\* ciphertext buffer to its last byte.
C9_Witness ==
  /\ op.name = "BlockDecryptionStream::NextRead"
  /\ \E t \in touched : t[1] = "m_encrypedBuffer" /\ t[3] = Capacity

\* C10: use after Flush is rejected.  Once Flush has been called on a
\* BlockEncryptionStream, every later AdvanceWrite and Flush fails and
\* forwards nothing to the sink.
C10_UseAfterFlushRejected ==
  [][(flushes >= 1 /\ op'.name \in {"BlockEncryptionStream::AdvanceWrite",
                                    "BlockEncryptionStream::Flush"}) =>
       /\ result' \in {"false", "abort"}
       /\ dest' = dest]_vars

----------------------------------------------------------------------------
\* Further claims checked under Spec (the pipeline).

\* The ciphertext bytes the decryptor has pulled from its source so far.
PulledSoFar == Len(dest) - Len(source)

\* C14: withheld final block.  Until Flush is called, whatever the spans the
\* source returned, the last B ciphertext bytes pulled so far (all of them
\* while fewer than B were pulled) lie untransformed at the end of the
\* ciphertext buffer; what the reader has been shown (delivered and still
\* readable) is the decryption of the bytes before them, a prefix of the
\* plaintext that holds no byte of the final block; and when NextRead has
\* reported the end of the source exactly one block is left for Flush.
C14_WithheldFinalBlock ==
  phase \in {"read", "flush"} =>
    LET w == Min(m_blockSize, PulledSoFar)
        shown == delivered \o Range(bd_buffer, bd_readPos, bd_readEnd - bd_readPos)
    IN /\ bd_writePos >= w
       /\ Range(bd_encrypedBuffer, bd_writePos - w, w) = SubSeq(dest, PulledSoFar - w + 1, PulledSoFar)
       /\ Len(shown) = PulledSoFar - bd_writePos
       /\ Len(shown) <= Len(dest) - m_blockSize
       /\ shown = SubSeq(plain, 1, Len(shown))
       /\ phase = "flush" => (source = <<>> /\ bd_writePos = m_blockSize)

\* C14 witness: the source is exhausted after several Decrypt calls, the
\* reader has been shown plaintext, and one block waits for Flush.
C14_Witness ==
  /\ phase = "flush"
  /\ Len(dest) > Capacity
  /\ Len(delivered) > m_blockSize
  /\ bd_writePos = m_blockSize
  /\ Range(bd_encrypedBuffer, 0, m_blockSize) = SubSeq(dest, Len(dest) - m_blockSize + 1, Len(dest))

\* C20: block encryptor chunking independence.  However the writer splits
\* the plaintext over AdvanceWrite calls, the sink holds the encryption of
\* the whole blocks of the bytes pushed so far and the adapter holds the
\* bytes after them, in order; after Flush the sink holds the encryption of
\* the plaintext followed by its padding, as one call on the whole would
\* produce.
C20_BlockChunking ==
  LET whole == m_blockSize * (fed \div m_blockSize)
  IN /\ phase = "write" =>
          /\ dest = BlockEncrypt(SubSeq(plain, 1, whole), m_blockSize, 0)
          /\ Range(be_buffer, 0, be_writePos) = SubSeq(plain, whole + 1, fed)
     /\ flushes = 1 =>
          dest = BlockEncrypt(plain \o PaddingBytes(m_blockSize - (Len(plain) % m_blockSize)),
                              m_blockSize, 0)

\* C20 witness: a plaintext of both byte values and unaligned length, pushed
\* in pieces that made the encryptor forward three times, Flush included.
C20_Witness ==
  /\ flushes = 1
  /\ Len(destWrites) >= 3
  /\ Len(plain) % m_blockSize # 0
  /\ \E i, j \in 1..Len(plain) : plain[i] # plain[j]
  /\ Len(dest) = Len(plain) + m_blockSize - (Len(plain) % m_blockSize)

----------------------------------------------------------------------------
\* Claims checked under SpecSink (an encryptor over a sink that may fail).

\* C11: sink failure propagation.  Whenever the wrapped sink rejects the
\* bytes an encryptor forwards, the adapter operation that forwarded them
\* (EncryptionStream::AdvanceWrite, BlockEncryptionStream::AdvanceWrite or
\* BlockEncryptionStream::Flush) reports failure to its caller.
C11_SinkFailurePropagation ==
  [][sinkFailures' > sinkFailures => result' = "false"]_vars

\* C12: all-or-nothing on failure.  When BlockEncryptionStream::AdvanceWrite
\* returns failure because the sink rejected the forwarded bytes, the write
\* cursor and the accumulated bytes are what they were before the call.
C12_AllOrNothing ==
  [][(op'.name = "BlockEncryptionStream::AdvanceWrite" /\ result' = "false") =>
       /\ be_writePos' = be_writePos
       /\ Range(be_buffer', 0, be_writePos) = Range(be_buffer, 0, be_writePos)]_vars

----------------------------------------------------------------------------
\* Further claims checked under SpecFree.

\* C13: accumulation bound.  After an AdvanceWrite(n) of the
\* BlockEncryptionStream, n within the span NextWrite returned, the adapter
\* holds (previously accumulated + n) mod B untransformed bytes, fewer than
\* B; after a Flush with B < Capacity it holds none.
C13_AccumulationBound ==
  [][/\ op'.name = "BlockEncryptionStream::AdvanceWrite" =>
          /\ be_writePos' = (be_writePos + op'.n) % m_blockSize
          /\ be_writePos' < m_blockSize
     /\ (op'.name = "BlockEncryptionStream::Flush" /\ m_blockSize < Capacity) =>
          be_writePos' = 0]_vars

\* C13 witness: a Flush that padded a carried remainder left by an
\* AdvanceWrite which had forwarded whole blocks, and emptied the adapter.
C13_Witness ==
  /\ op.name = "BlockEncryptionStream::Flush"
  /\ m_blockSize < Capacity
  /\ op.n < m_blockSize
  /\ Len(destWrites) >= 2
  /\ be_writePos = 0

\* C15: Decrypt success value.  A NextRead of the BlockDecryptionStream
\* succeeds exactly when it has plaintext to hand out: a successful NextRead
\* returns a non-empty span, and a Decrypt that produced no plaintext byte
\* reports "no data".
C15_DecryptSuccessValue ==
  op.name = "BlockDecryptionStream::NextRead" => (result = "true" <=> op.n > 0)

\* C16: padding verification on decrypt.  A Flush of the
\* BlockDecryptionStream that decrypted withheld blocks accepts the trailer
\* only when it is a valid padding trailer: the last byte p is between 1 and
\* B and the p - 1 bytes before it are zero.  A last byte of 0, or non-zero
\* filler, is reported as invalid padding.
C16_PaddingVerified ==
  [][(/\ op'.name = "BlockDecryptionStream::Flush"
      /\ op'.n > 0 /\ op'.n % m_blockSize = 0
      /\ errors = {}) =>
       LET end == bd_readEnd + op'.n
           p == Peek(bd_buffer', end - 1)
           valid == /\ p >= 1 /\ p <= m_blockSize
                    /\ Range(bd_buffer', end - p, p - 1) = Zeros(p - 1)
       IN ~valid => "BlockDecryptionStream::Flush: invalid padding" \in errors']_vars

\* C17: truncated ciphertext.  A Flush of the BlockDecryptionStream called
\* while the ciphertext buffer holds a number of bytes that is not a multiple
\* of B signals the corruption and exposes none of those bytes: no byte is
\* written to the plaintext window and the readable region does not grow.
C17_TruncatedCiphertext ==
  [][(op'.name = "BlockDecryptionStream::Flush" /\ op'.n % m_blockSize # 0) =>
       /\ "BlockDecryptionStream::Flush: not block aligned" \in errors'
       /\ bd_buffer' = bd_buffer
       /\ bd_readEnd' = bd_readEnd]_vars

\* C18: padding fit.  A Flush of the BlockEncryptionStream whose padding fits
\* the accumulation buffer (accumulated + padLen <= Capacity, the boundary
\* accumulated + padLen = Capacity included) raises no padding failure; it
\* writes the padding and forwards the padded final block.
C18_PaddingFit ==
  [][(/\ op'.name = "BlockEncryptionStream::Flush"
      /\ errors = {}
      /\ be_writePos + (m_blockSize - (be_writePos % m_blockSize)) <= Capacity) =>
       /\ errors' = {}
       /\ Len(dest') = Len(dest) + be_writePos + (m_blockSize - (be_writePos % m_blockSize))]_vars

\* C19: Decrypt termination and progress.  A Decrypt of the
\* BlockDecryptionStream runs at most one transform.  With 2B <= Capacity, a
\* NextRead on an empty plaintext window whose source still has unread bytes
\* succeeds and pulls at least one of them, so "no data" is reported only
\* once the source is exhausted and the read protocol pulls every byte of a
\* finite source.
C19_DecryptProgress ==
  [][op'.name = "BlockDecryptionStream::NextRead" =>
       /\ op'.transforms <= 1
       /\ (2 * m_blockSize <= Capacity /\ bd_readEnd = bd_readPos /\ source # <<>>) =>
            /\ result' = "true"
            /\ op'.pulled >= 1
            /\ Len(source') = Len(source) - op'.pulled
       /\ (2 * m_blockSize <= Capacity /\ result' = "false") => source = <<>>]_vars

\* C19 witness: a Decrypt that pulled at least two blocks, transformed once
\* and returned with the source not yet exhausted.
C19_Witness ==
  /\ op.name = "BlockDecryptionStream::NextRead"
  /\ 2 * m_blockSize <= Capacity
  /\ op.transforms = 1
  /\ op.pulled >= 2 * m_blockSize
  /\ source # <<>>
  /\ result = "true"

====
